---- MODULE Spec2Model ----
(***************************************************************************)
(* A model of the Crane native backend (crates/crane/src/backend/native.rs) *)
(* NativeBackend::compile is a single sequential procedure; the model      *)
(* follows it block by block: the seven prelude definitions, the reversed  *)
(* item loop (signature, body statements, return, verification) and the    *)
(* emission steps.  The LLVM module is modelled by its function list, its  *)
(* global list and the counter LLVM uses to make symbol names unique.      *)
(* Pointers are opaque (one "ptr" kind), as in the LLVM the prelude needs  *)
(* for its own template arguments to verify.                               *)
(* A second specification, SpecParser, models the token-level methods of   *)
(* Parser (crates/crane/src/parser.rs, parser/item.rs) and Parser::parse.  *)
(***************************************************************************)
EXTENDS Naturals, Sequences, FiniteSets, TLC

VARIABLES
    program,     \* the Vec<TyItem> handed to compile (never changes)
    rest,        \* items the reversed iterator has not yielded yet
    item,        \* the loop variable `item`
    si,          \* index of the next statement of item.body
    cur,         \* index in functions of fn_value (0 before the loop)
    pc,          \* position inside compile
    status,      \* "running" | "returned" | "panicked"
    panic,       \* what the panic was about
    functions,   \* the module's functions, in creation order
    globals,     \* the module's global variables, in creation order
    lastUnique,  \* LLVM's counter for renamed duplicate symbols
    stderr,      \* lines written with eprintln!
    out,         \* emission events, in the order they happened
    input,           \* the token stream handed to Parser::new (never changes)
    tokens,          \* Parser.tokens: what the stream has not yielded yet
    lex_errors,      \* Parser.lex_errors
    expected_tokens, \* Parser.expected_tokens
    token,           \* Parser.token
    prev_token,      \* Parser.prev_token
    pstate,          \* "none" | "created" | "ready" | "parsed"
    budget,          \* direct calls the parser's user still makes before parse
    called,          \* the last method called and its argument
    ret,             \* what consume / consume_keyword returned
    result,          \* what parse / parse_ident returned
    items_result     \* parse's local items_result

cvars == <<program, rest, item, si, cur, pc, status, panic, functions,
           globals, lastUnique, stderr, out>>
pvars == <<input, tokens, lex_errors, expected_tokens, token, prev_token,
           pstate, budget, called, ret, result, items_result>>
vars == <<cvars, pvars>>

(* ------------------------------ bounds --------------------------------- *)
MaxItems == 2
MaxParams == 2
MaxStmts == 2
MaxLexLen == 2
MaxShort == 2
MaxTokens == 3
MaxCalls == 2
MaxParsedStmts == 1

SeqsUpTo(S, n) == UNION {[1..k -> S] : k \in 0..n}

(* ------------------------------ the typed tree ------------------------- *)
UserDefined(m, n) == [tag |-> "UserDefined", module |-> m, name |-> n]
TyString == UserDefined("std::prelude", "String")
TyUint64 == UserDefined("std::prelude", "Uint64")
TyPoint == UserDefined("std::prelude", "Point")
TyAppString == UserDefined("app", "String")
TyFnType == [tag |-> "Fn", module |-> "", name |-> ""]

TyFnParam(n, t) == [name |-> n, ty |-> t]

\* characters are their UTF-8 byte sequences
ChQuote == <<34>>
ChH == <<104>>
ChI == <<105>>
ChEacute == <<195, 169>>

StrLit(l) == [kind |-> "Str", name |-> "", lex |-> l, num |-> 0, args |-> <<>>]
IntLit(v) == [kind |-> "Int", name |-> "", lex |-> <<>>, num |-> v, args |-> <<>>]
Variable(n) == [kind |-> "Var", name |-> n, lex |-> <<>>, num |-> 0, args |-> <<>>]
Call(f, a) == [kind |-> "Call", name |-> f, lex |-> <<>>, num |-> 0, args |-> a]
\* a call whose callee expression is not a bare variable
CallIndirect(a) == [kind |-> "CallIndirect", name |-> "", lex |-> <<>>, num |-> 0, args |-> a]

StmtExpr(e) == [kind |-> "Expr", expr |-> e]
StmtItem == [kind |-> "Item", expr |-> IntLit(0)]

TyItem(n, ps, b) == [name |-> n, params |-> ps, body |-> b]
NoItem == TyItem("", <<>>, <<>>)

(* ------------------------------ the LLVM module ------------------------ *)
Sym(b, u) == [base |-> b, uniq |-> u]
MParam(t, n) == [ty |-> t, name |-> n]
Val(k, t, n) == [vk |-> k, ty |-> t, n |-> n]
NoVal == Val("none", "void", 0)
Inst(o, c, a, t) == [op |-> o, callee |-> c, args |-> a, ty |-> t]

Taken(fs, gs, b) ==
    \/ \E i \in 1..Len(fs) : fs[i].sym = Sym(b, 0)
    \/ \E i \in 1..Len(gs) : gs[i].sym = Sym(b, 0)

\* the name a new function or global gets: LLVM appends ".<counter>" to a
\* name that is already in the module
NewSym(fs, gs, u, b) == IF Taken(fs, gs, b) THEN Sym(b, u + 1) ELSE Sym(b, 0)
NewUnique(fs, gs, u, b) == IF Taken(fs, gs, b) THEN u + 1 ELSE u

\* module.get_function(name): the index of the function of that name, or 0
GetFunction(fs, b) ==
    IF \E i \in 1..Len(fs) : fs[i].sym = Sym(b, 0)
    THEN CHOOSE i \in 1..Len(fs) : fs[i].sym = Sym(b, 0)
    ELSE 0

Function(s, r, ps, va, l) ==
    [sym |-> s, ret |-> r, params |-> ps, variadic |-> va, linkage |-> l,
     body |-> <<>>, hasBody |-> FALSE, verified |-> FALSE, optimized |-> FALSE]

\* a global of type [n x i8] with an initializer
Global(s, n, bytes) ==
    [sym |-> s, linkage |-> "internal", constant |-> TRUE, len |-> n,
     init |-> bytes]

\* context.const_string(bytes, true): the bytes and a terminating NUL
ConstString(bytes) == bytes \o <<0>>

(* what the LLVM verifier requires of a call instruction *)
CallOk(fs, ins) ==
    /\ ins.callee \in 1..Len(fs)
    /\ LET f == fs[ins.callee] IN
        /\ IF f.variadic THEN Len(ins.args) >= Len(f.params)
                         ELSE Len(ins.args) = Len(f.params)
        /\ \A i \in 1..Len(f.params) :
              i <= Len(ins.args) => ins.args[i].ty = f.params[i].ty
        /\ ins.ty = f.ret

RetOk(f, ins) ==
    IF f.ret = "void" THEN ins.args = <<>>
    ELSE Len(ins.args) = 1 /\ ins.args[1].ty = f.ret

\* fn_value.verify(true)
Verify(fs, i) ==
    LET f == fs[i] IN
    IF ~f.hasBody THEN TRUE
    ELSE /\ Len(f.body) > 0
         /\ f.body[Len(f.body)].op = "ret"
         /\ RetOk(f, f.body[Len(f.body)])
         /\ \A k \in 1..Len(f.body) :
              /\ (f.body[k].op = "ret" => k = Len(f.body))
              /\ (f.body[k].op = "call" => CallOk(fs, f.body[k]))

\* verify_fn running the pass manager without looking at verify's result
VerifyFnUnchecked(fs, i) ==
    [ok |-> TRUE,
     fs |-> [fs EXCEPT ![i].verified = TRUE, ![i].optimized = TRUE]]

\* Self::verify_fn: Ok(()) after running the pass manager, or Err
VerifyFn(fs, i) ==
    IF Verify(fs, i)
    THEN [ok |-> TRUE,
          fs |-> [fs EXCEPT ![i].verified = TRUE, ![i].optimized = TRUE]]
    ELSE [ok |-> FALSE, fs |-> fs]

Panic(k, n) == [kind |-> k, name |-> n]
NoPanic == Panic("none", "")
\* the message naming a fixed function, as the prelude blocks do
NotFoundPuts(n) == [msg |-> "Function not found", name |-> "puts"]
NotFound(n) == [msg |-> "Function not found", name |-> n]


\* module.add_function(name, fn_type, linkage)
AddFunction(fs, gs, u, b, r, ps, va, l) ==
    [fs |-> Append(fs, Function(NewSym(fs, gs, u, b), r, ps, va, l)),
     u |-> NewUnique(fs, gs, u, b)]

\* module.add_global(array_type, None, name) and its three setters
AddGlobal(fs, gs, u, b, n, bytes) ==
    [gs |-> Append(gs, Global(NewSym(fs, gs, u, b), n, bytes)),
     u |-> NewUnique(fs, gs, u, b)]

(* ------------------------------ the prelude ---------------------------- *)
\* the tail of every prelude block: Self::verify_fn(..).unwrap()
Verified(fs, name, next) ==
    LET v == VerifyFn(fs, Len(fs)) IN
    IF v.ok
    THEN /\ functions' = v.fs
         /\ pc' = next
         /\ UNCHANGED <<status, panic>>
    ELSE /\ functions' = fs
         /\ status' = "panicked"
         /\ panic' = Panic("not_verified", name)
         /\ UNCHANGED pc

TemplateS == <<37, 49, 36, 115>>  \* b"%1$s"
TemplateD == <<37, 49, 36, 100>>  \* b"%1$d"

DefinePuts ==
    /\ pc = "puts" /\ status = "running"
    /\ LET a == AddFunction(functions, globals, lastUnique, "puts", "i32",
                            <<MParam("ptr", "")>>, FALSE, "external")
       IN /\ Verified(a.fs, "puts", "sprintf")
          /\ lastUnique' = a.u
    /\ UNCHANGED <<pvars, program, rest, item, si, cur, globals, stderr, out>>

DefineSprintf ==
    /\ pc = "sprintf" /\ status = "running"
    /\ LET a == AddFunction(functions, globals, lastUnique, "sprintf", "i32",
                            <<MParam("ptr", ""), MParam("ptr", "")>>, TRUE,
                            "external")
       IN /\ Verified(a.fs, "sprintf", "printf")
          /\ lastUnique' = a.u
    /\ UNCHANGED <<pvars, program, rest, item, si, cur, globals, stderr, out>>

DefinePrintf ==
    /\ pc = "printf" /\ status = "running"
    /\ LET a == AddFunction(functions, globals, lastUnique, "printf", "i32",
                            <<MParam("ptr", "")>>, TRUE, "external")
       IN /\ Verified(a.fs, "printf", "print")
          /\ lastUnique' = a.u
    /\ UNCHANGED <<pvars, program, rest, item, si, cur, globals, stderr, out>>

DefinePrint ==
    /\ pc = "print" /\ status = "running"
    /\ LET a == AddFunction(functions, globals, lastUnique, "print", "void",
                            <<MParam("ptr", "")>>, FALSE, "default")
           me == Len(a.fs)
           g == AddGlobal(a.fs, globals, a.u, "print_template",
                          Len(TemplateS) + 1, ConstString(TemplateS))
           callee == GetFunction(a.fs, "printf")
           call == IF callee # 0
                   THEN <<Inst("call", callee,
                               <<Val("global", "ptr", Len(g.gs)),
                                 Val("param", "ptr", 0)>>,
                               a.fs[callee].ret)>>
                   ELSE <<>>
           body == call \o <<Inst("ret", 0, <<>>, "void")>>
           fs == [a.fs EXCEPT ![me].hasBody = TRUE, ![me].body = body]
       IN /\ Verified(fs, "print", "println")
          /\ globals' = g.gs
          /\ lastUnique' = g.u
          /\ stderr' = IF callee # 0 THEN stderr
                       ELSE Append(stderr, NotFound("puts"))
    /\ UNCHANGED <<pvars, program, rest, item, si, cur, out>>

DefinePrintln ==
    /\ pc = "println" /\ status = "running"
    /\ LET a == AddFunction(functions, globals, lastUnique, "println", "void",
                            <<MParam("ptr", "")>>, FALSE, "default")
           me == Len(a.fs)
           callee == GetFunction(a.fs, "puts")
           call == IF callee # 0
                   THEN <<Inst("call", callee, <<Val("param", "ptr", 0)>>,
                               a.fs[callee].ret)>>
                   ELSE <<>>
           body == call \o <<Inst("ret", 0, <<>>, "void")>>
           fs == [a.fs EXCEPT ![me].hasBody = TRUE, ![me].body = body]
       IN /\ Verified(fs, "println", "int_add")
          /\ lastUnique' = a.u
          /\ stderr' = IF callee # 0 THEN stderr
                       ELSE Append(stderr, NotFound("puts"))
    /\ UNCHANGED <<pvars, program, rest, item, si, cur, globals, out>>

DefineIntAdd ==
    /\ pc = "int_add" /\ status = "running"
    /\ LET a == AddFunction(functions, globals, lastUnique, "int_add", "i64",
                            <<MParam("i64", ""), MParam("i64", "")>>, FALSE,
                            "default")
           me == Len(a.fs)
           body == <<Inst("add", 0,
                          <<Val("param", "i64", 0), Val("param", "i64", 1)>>,
                          "i64"),
                     Inst("ret", 0, <<Val("inst", "i64", 1)>>, "void")>>
           fs == [a.fs EXCEPT ![me].hasBody = TRUE, ![me].body = body]
       IN /\ Verified(fs, "int_add", "int_to_string")
          /\ lastUnique' = a.u
    /\ UNCHANGED <<pvars, program, rest, item, si, cur, globals, stderr, out>>

\* the block without its add_function
DefineIntToStringSkipped ==
    /\ pc = "int_to_string" /\ status = "running"
    /\ pc' = "loop"
    /\ UNCHANGED <<pvars, program, rest, item, si, cur, status, panic, functions,
                   globals, lastUnique, stderr, out>>

DefineIntToString ==
    /\ pc = "int_to_string" /\ status = "running"
    /\ LET a == AddFunction(functions, globals, lastUnique, "int_to_string",
                            "ptr", <<MParam("i64", "")>>, FALSE, "default")
           me == Len(a.fs)
           g == AddGlobal(a.fs, globals, a.u, "int_to_string_template",
                          Len(TemplateD) + 1, ConstString(TemplateD))
           callee == GetFunction(a.fs, "sprintf")
           malloc == Inst("malloc", 0, <<>>, "ptr")
       IN IF callee # 0
          THEN LET body == <<malloc,
                             Inst("call", callee,
                                  <<Val("inst", "ptr", 1),
                                    Val("global", "ptr", Len(g.gs)),
                                    Val("param", "i64", 0)>>,
                                  a.fs[callee].ret),
                             Inst("ret", 0, <<Val("inst", "ptr", 1)>>, "void")>>
                   fs == [a.fs EXCEPT ![me].hasBody = TRUE, ![me].body = body]
               IN /\ Verified(fs, "int_to_string", "loop")
                  /\ globals' = g.gs
                  /\ lastUnique' = g.u
          ELSE /\ functions' = [a.fs EXCEPT ![me].hasBody = TRUE,
                                            ![me].body = <<malloc>>]
               /\ globals' = g.gs
               /\ lastUnique' = g.u
               /\ status' = "panicked"
               /\ panic' = Panic("not_found", "sprintf")
               /\ UNCHANGED pc
    /\ UNCHANGED <<pvars, program, rest, item, si, cur, stderr, out>>

(* ------------------------------ expression lowering -------------------- *)
RECURSIVE Flatten(_)
\* str::as_bytes of a character sequence
Flatten(cs) == IF cs = <<>> THEN <<>> ELSE Head(cs) \o Flatten(Tail(cs))

\* the unquoting without chars.next_back()
UnquoteFirstOnly(l) == IF Len(l) <= 1 THEN <<>> ELSE SubSeq(l, 2, Len(l))

\* chars.next(); chars.next_back(); chars.as_str()
Unquote(l) == IF Len(l) <= 1 THEN <<>> ELSE SubSeq(l, 2, Len(l) - 1)

\* the lowering state threaded through one statement
LState(gs, u, b, e) == [gs |-> gs, u |-> u, body |-> b, err |-> e]
Res(o, w, st, v, vs) == [outcome |-> o, why |-> w, st |-> st, val |-> v, vals |-> vs]

\* compile_string_literal reusing the global of an equal earlier literal
CompileStringLiteralShared(fs, st, l) ==
    LET value == Flatten(Unquote(l))
        same == {k \in 1..Len(st.gs) :
                    /\ st.gs[k].sym.base = "string_lit"
                    /\ st.gs[k].init = ConstString(value)}
        g == AddGlobal(fs, st.gs, st.u, "string_lit", Len(value) + 1,
                       ConstString(value))
    IN IF same # {}
       THEN Res("ok", NoPanic, st,
                Val("global", "ptr", CHOOSE k \in same : TRUE), <<>>)
       ELSE Res("ok", NoPanic, [st EXCEPT !.gs = g.gs, !.u = g.u],
                Val("global", "ptr", Len(g.gs)), <<>>)

\* Self::compile_string_literal
CompileStringLiteral(fs, st, l) ==
    LET value == Flatten(Unquote(l))
        g == AddGlobal(fs, st.gs, st.u, "string_lit", Len(value) + 1,
                       ConstString(value))
    IN Res("ok", NoPanic, [st EXCEPT !.gs = g.gs, !.u = g.u],
           Val("global", "ptr", Len(g.gs)), <<>>)

\* Self::compile_integer_literal
CompileIntegerLiteral(st, v) ==
    Res("ok", NoPanic, st, Val("const", "i64", v), <<>>)

\* caller_params.into_iter().enumerate().find(|(_, p)| p.name == name):
\* the 1-based position of the first parameter of that name, or 0
FindParam(ps, n) ==
    IF \E i \in 1..Len(ps) : ps[i].name = n
    THEN CHOOSE i \in 1..Len(ps) :
            ps[i].name = n /\ \A j \in 1..(i - 1) : ps[j].name # n
    ELSE 0

RECURSIVE CompileFnCall(_, _, _, _, _)
RECURSIVE LowerArgs(_, _, _, _, _, _, _)

\* the closure of args.into_iter().map(..).collect() in compile_fn_call,
\* applied to args[i..] with the values of args[1..i-1] in vals
LowerArgs(fs, c, ps, st, args, i, vals) ==
    IF i > Len(args) THEN Res("ok", NoPanic, st, NoVal, vals)
    ELSE LET arg == args[i] IN
      CASE arg.kind = "Str" ->
             LET g == CompileStringLiteral(fs, st, arg.lex)
             IN LowerArgs(fs, c, ps, g.st, args, i + 1, Append(vals, g.val))
        [] arg.kind = "Int" ->
             LET k == CompileIntegerLiteral(st, arg.num)
             IN LowerArgs(fs, c, ps, k.st, args, i + 1, Append(vals, k.val))
        [] arg.kind = "Var" ->
             LET idx == FindParam(ps, arg.name) IN
             IF idx = 0
             THEN Res("panic", Panic("param_not_found", arg.name), st, NoVal, vals)
             ELSE IF idx > Len(fs[c].params)
             THEN Res("panic", Panic("nth_param", arg.name), st, NoVal, vals)
             ELSE LowerArgs(fs, c, ps, st, args, i + 1,
                            Append(vals, Val("param", fs[c].params[idx].ty, idx - 1)))
        [] OTHER ->
             LET r == CompileFnCall(fs, c, ps, st, arg) IN
             IF r.outcome = "panic" THEN r
             ELSE IF r.outcome = "err"
             THEN Res("panic", Panic("unwrap_err", arg.name), r.st, NoVal, vals)
             ELSE IF r.val.ty = "void"
             THEN Res("panic", Panic("unwrap_left", arg.name), r.st, NoVal, vals)
             ELSE LowerArgs(fs, c, ps, r.st, args, i + 1, Append(vals, r.val))

\* compile_fn_call handing the argument values over in reverse
CompileFnCallReversed(fs, c, ps, st, e) ==
    IF e.kind # "Call"
    THEN Res("panic", Panic("todo", "callee"), st, NoVal, <<>>)
    ELSE LET callee == GetFunction(fs, e.name) IN
      IF callee = 0
      THEN Res("err", Panic("not_found", e.name),
               [st EXCEPT !.err = Append(@, NotFound(e.name))], NoVal, <<>>)
      ELSE LET a == LowerArgs(fs, c, ps, st, e.args, 1, <<>>) IN
        IF a.outcome # "ok" THEN a
        ELSE LET n == Len(a.vals)
                 b == Append(a.st.body,
                             Inst("call", callee,
                                  [k \in 1..n |-> a.vals[n + 1 - k]],
                                  fs[callee].ret))
             IN Res("ok", NoPanic, [a.st EXCEPT !.body = b],
                    Val("inst", fs[callee].ret, Len(b)), <<>>)

\* Self::compile_fn_call
CompileFnCall(fs, c, ps, st, e) ==
    IF e.kind # "Call"
    THEN Res("panic", Panic("todo", "callee"), st, NoVal, <<>>)
    ELSE LET callee == GetFunction(fs, e.name) IN
      IF callee = 0
      THEN Res("err", Panic("not_found", e.name),
               [st EXCEPT !.err = Append(@, NotFound(e.name))], NoVal, <<>>)
      ELSE LET a == LowerArgs(fs, c, ps, st, e.args, 1, <<>>) IN
        IF a.outcome # "ok" THEN a
        ELSE LET b == Append(a.st.body,
                             Inst("call", callee, a.vals, fs[callee].ret))
             IN Res("ok", NoPanic, [a.st EXCEPT !.body = b],
                    Val("inst", fs[callee].ret, Len(b)), <<>>)

\* compile_expr dropping the call's Result instead of .expect()
CompileExprIgnoringErr(fs, c, ps, st, e) ==
    CASE e.kind = "Str" -> CompileStringLiteral(fs, st, e.lex)
      [] e.kind = "Int" -> Res("ok", NoPanic, st, NoVal, <<>>)
      [] e.kind = "Var" -> Res("panic", Panic("todo", "variable"), st, NoVal, <<>>)
      [] OTHER ->
           LET r == CompileFnCall(fs, c, ps, st, e) IN
           IF r.outcome = "err"
           THEN Res("ok", NoPanic, r.st, NoVal, <<>>)
           ELSE r

\* Self::compile_expr
CompileExpr(fs, c, ps, st, e) ==
    CASE e.kind = "Str" -> CompileStringLiteral(fs, st, e.lex)
      [] e.kind = "Int" -> Res("ok", NoPanic, st, NoVal, <<>>)
      [] e.kind = "Var" -> Res("panic", Panic("todo", "variable"), st, NoVal, <<>>)
      [] OTHER ->
           LET r == CompileFnCall(fs, c, ps, st, e) IN
           IF r.outcome = "err"
           THEN Res("panic", Panic("call_failed", e.name), r.st, NoVal, <<>>)
           ELSE r

(* ------------------------------ the item loop -------------------------- *)
\* the match looking at the type's name only
ParamTypeByName(ty) ==
    IF ty.tag = "Fn" THEN "todo"
    ELSE IF ty.name = "String" THEN "ptr"
    ELSE IF ty.name = "Uint64" THEN "i64"
    ELSE "unknown"

\* the match on param.ty
ParamType(ty) ==
    IF ty.tag = "Fn" THEN "todo"
    ELSE IF ty.module = "std::prelude" /\ ty.name = "String" THEN "ptr"
    ELSE IF ty.module = "std::prelude" /\ ty.name = "Uint64" THEN "i64"
    ELSE "unknown"

\* fun.params.iter().map(..).collect(): the machine kinds, or the first
\* parameter (1-based) whose type makes the closure panic
MapParams(ps) ==
    LET bad == {i \in 1..Len(ps) : ParamType(ps[i].ty) \in {"todo", "unknown"}}
    IN IF bad = {}
       THEN [ok |-> TRUE, at |-> 0,
             params |-> [i \in 1..Len(ps) |-> MParam(ParamType(ps[i].ty), "")]]
       ELSE [ok |-> FALSE,
             at |-> CHOOSE i \in bad : \A j \in bad : i <= j,
             params |-> <<>>]

\* the loop naming every parameter after the first declared one
SetParamNamesFirst(mps, ps) ==
    [i \in 1..Len(mps) |->
        IF i <= Len(ps) THEN MParam(mps[i].ty, ps[1].name) ELSE mps[i]]

\* for (index, param_value) in fn_value.get_param_iter().enumerate()
SetParamNames(mps, ps) ==
    [i \in 1..Len(mps) |->
        IF i <= Len(ps) THEN MParam(mps[i].ty, ps[i].name) ELSE mps[i]]

\* every function typed like main
FnRetTypeAlwaysInt(name) == "i32"

\* the return type chosen by is_main_fn
FnRetType(name) == IF name = "main" THEN "i32" ELSE "void"

\* the instruction built after the body
FnReturn(name) ==
    IF name = "main"
    THEN Inst("ret", 0, <<Val("const", "i32", 0)>>, "void")
    ELSE Inst("ret", 0, <<>>, "void")

\* the iterator without .rev()
RevNextForward(r) == [item |-> r[1], rest |-> SubSeq(r, 2, Len(r))]

\* program.into_iter().rev(): what next() yields and what it leaves
RevNext(r) == [item |-> r[Len(r)], rest |-> SubSeq(r, 1, Len(r) - 1)]

\* one turn of the for loop's iterator; leaving the loop starts emission
ForNext ==
    /\ pc = "loop" /\ status = "running"
    /\ IF rest = <<>>
       THEN /\ pc' = "emit_ll"
            /\ UNCHANGED <<item, rest>>
       ELSE /\ item' = RevNext(rest).item
            /\ rest' = RevNext(rest).rest
            /\ pc' = "sig"
    /\ UNCHANGED <<pvars, program, si, cur, status, panic, functions, globals,
                   lastUnique, stderr, out>>

\* the function added to the module under no name
DeclareFnUnnamed ==
    /\ pc = "sig" /\ status = "running"
    /\ LET m == MapParams(item.params) IN
       IF ~m.ok
       THEN /\ status' = "panicked"
            /\ panic' = Panic(IF ParamType(item.params[m.at].ty) = "todo"
                              THEN "todo" ELSE "unknown_type",
                              item.params[m.at].name)
            /\ UNCHANGED <<pc, si, cur, functions, lastUnique>>
       ELSE LET a == AddFunction(functions, globals, lastUnique, "",
                                 FnRetType(item.name), m.params, FALSE, "default")
                me == Len(a.fs)
            IN /\ functions' = [a.fs EXCEPT
                                  ![me].params = SetParamNames(m.params, item.params),
                                  ![me].hasBody = TRUE]
               /\ lastUnique' = a.u
               /\ cur' = me
               /\ si' = 1
               /\ pc' = "body"
               /\ UNCHANGED <<status, panic>>
    /\ UNCHANGED <<pvars, program, rest, item, globals, stderr, out>>

\* the signature, add_function, the parameter names and the entry block
DeclareFn ==
    /\ pc = "sig" /\ status = "running"
    /\ LET m == MapParams(item.params) IN
       IF ~m.ok
       THEN /\ status' = "panicked"
            /\ panic' = Panic(IF ParamType(item.params[m.at].ty) = "todo"
                              THEN "todo" ELSE "unknown_type",
                              item.params[m.at].name)
            /\ UNCHANGED <<pc, si, cur, functions, lastUnique>>
       ELSE LET a == AddFunction(functions, globals, lastUnique, item.name,
                                 FnRetType(item.name), m.params, FALSE, "default")
                me == Len(a.fs)
            IN /\ functions' = [a.fs EXCEPT
                                  ![me].params = SetParamNames(m.params, item.params),
                                  ![me].hasBody = TRUE]
               /\ lastUnique' = a.u
               /\ cur' = me
               /\ si' = 1
               /\ pc' = "body"
               /\ UNCHANGED <<status, panic>>
    /\ UNCHANGED <<pvars, program, rest, item, globals, stderr, out>>

\* one turn of `for stmt in fun.body`
LowerStmt ==
    /\ pc = "body" /\ status = "running"
    /\ si <= Len(item.body)
    /\ LET stmt == item.body[si] IN
       IF stmt.kind = "Item"
       THEN /\ status' = "panicked"
            /\ panic' = Panic("todo", "item")
            /\ UNCHANGED <<si, functions, globals, lastUnique, stderr>>
       ELSE LET st == LState(globals, lastUnique, functions[cur].body, stderr)
                r == CompileExpr(functions, cur, item.params, st, stmt.expr)
            IN /\ functions' = [functions EXCEPT ![cur].body = r.st.body]
               /\ globals' = r.st.gs
               /\ lastUnique' = r.st.u
               /\ stderr' = r.st.err
               /\ IF r.outcome = "ok"
                  THEN si' = si + 1 /\ UNCHANGED <<status, panic>>
                  ELSE /\ status' = "panicked"
                       /\ panic' = r.why
                       /\ UNCHANGED si
    /\ UNCHANGED <<pvars, program, rest, item, cur, pc, out>>

\* builder.build_return after the last statement
BuildReturn ==
    /\ pc = "body" /\ status = "running"
    /\ si > Len(item.body)
    /\ functions' = [functions EXCEPT
                       ![cur].body = Append(@, FnReturn(item.name))]
    /\ pc' = "verify"
    /\ UNCHANGED <<pvars, program, rest, item, si, cur, status, panic, globals,
                   lastUnique, stderr, out>>

\* verify_fn with its Result dropped instead of .unwrap()
VerifyUserFnIgnoring ==
    /\ pc = "verify" /\ status = "running"
    /\ functions' = VerifyFn(functions, cur).fs
    /\ pc' = "loop"
    /\ UNCHANGED <<pvars, program, rest, item, si, cur, status, panic, globals,
                   lastUnique, stderr, out>>

\* Self::verify_fn(&fpm, &item.name.to_string(), &fn_value).unwrap()
VerifyUserFn ==
    /\ pc = "verify" /\ status = "running"
    /\ LET v == VerifyFn(functions, cur) IN
       IF v.ok
       THEN /\ functions' = v.fs
            /\ pc' = "loop"
            /\ UNCHANGED <<status, panic>>
       ELSE /\ status' = "panicked"
            /\ panic' = Panic("not_verified", item.name)
            /\ UNCHANGED <<pc, functions>>
    /\ UNCHANGED <<pvars, program, rest, item, si, cur, globals, lastUnique,
                   stderr, out>>

(* ------------------------------ emission ------------------------------- *)
Event(e, c) == [ev |-> e, code |-> c]
ExitCodes == {0, 1}

Abort(k, n) ==
    /\ status' = "panicked"
    /\ panic' = Panic(k, n)
    /\ UNCHANGED pc

\* module.print_to_file("build/main.ll").expect(..)
PrintToFile ==
    /\ pc = "emit_ll" /\ status = "running"
    /\ \E ok \in BOOLEAN :
         IF ok THEN /\ out' = Append(out, Event("main.ll", 0))
                    /\ pc' = "emit_obj"
                    /\ UNCHANGED <<status, panic>>
         ELSE Abort("io", "main.ll") /\ UNCHANGED out
    /\ UNCHANGED <<pvars, program, rest, item, si, cur, functions, globals,
                   lastUnique, stderr>>

\* write_to_memory_buffer, File::create("build/main.o"), write_all(buffer)
WriteObject ==
    /\ pc = "emit_obj" /\ status = "running"
    /\ \E r \in {"buffer_failed", "create_failed", "write_failed", "ok"} :
         CASE r = "buffer_failed" -> Abort("io", "buffer") /\ UNCHANGED out
           [] r = "create_failed" -> Abort("io", "main.o") /\ UNCHANGED out
           [] r = "write_failed" ->
                /\ Abort("io", "main.o")
                /\ out' = Append(out, Event("main.o:create", 0))
           [] OTHER ->
                /\ out' = out \o <<Event("main.o:create", 0),
                                   Event("main.o:object", 0)>>
                /\ pc' = "emit_bc"
                /\ UNCHANGED <<status, panic>>
    /\ UNCHANGED <<pvars, program, rest, item, si, cur, functions, globals,
                   lastUnique, stderr>>

\* write_bitcode_to_memory and the second write_all on the same file
WriteBitcode ==
    /\ pc = "emit_bc" /\ status = "running"
    /\ \E ok \in BOOLEAN :
         IF ok THEN /\ out' = Append(out, Event("main.o:bitcode", 0))
                    /\ pc' = "link"
                    /\ UNCHANGED <<status, panic>>
         ELSE Abort("io", "main.o") /\ UNCHANGED out
    /\ UNCHANGED <<pvars, program, rest, item, si, cur, functions, globals,
                   lastUnique, stderr>>

\* the link step treating a nonzero exit status as fatal
LinkStrict ==
    /\ pc = "link" /\ status = "running"
    /\ \E spawned \in BOOLEAN, code \in ExitCodes :
         IF spawned
         THEN /\ out' = Append(out, Event("clang:exit", code))
              /\ IF code = 0
                 THEN pc' = "report" /\ UNCHANGED <<status, panic>>
                 ELSE Abort("exit", "clang")
         ELSE /\ Abort("spawn", "clang")
              /\ out' = Append(out, Event("clang:spawn_failed", 0))
    /\ UNCHANGED <<pvars, program, rest, item, si, cur, functions, globals,
                   lastUnique, stderr>>

\* Command::new("clang").args(..).status().expect(..)
Link ==
    /\ pc = "link" /\ status = "running"
    /\ \E spawned \in BOOLEAN, code \in ExitCodes :
         IF spawned
         THEN /\ out' = Append(out, Event("clang:exit", code))
              /\ pc' = "report"
              /\ UNCHANGED <<status, panic>>
         ELSE /\ Abort("spawn", "clang")
              /\ out' = Append(out, Event("clang:spawn_failed", 0))
    /\ UNCHANGED <<pvars, program, rest, item, si, cur, functions, globals,
                   lastUnique, stderr>>

\* println!("clang exited with {}", exit_status) and the return
Report ==
    /\ pc = "report" /\ status = "running"
    /\ out' = Append(out, Event("stdout:clang exited", out[Len(out)].code))
    /\ pc' = "done"
    /\ status' = "returned"
    /\ UNCHANGED <<pvars, program, rest, item, si, cur, panic, functions, globals,
                   lastUnique, stderr>>

(* ------------------------------ input programs ------------------------- *)
FnNames == {"main", "A", "B", "println"}
ParamTypes == {TyString, TyUint64, TyPoint, TyAppString, TyFnType}
Params == {TyFnParam(n, t) : n \in {"x", "y"}, t \in ParamTypes}
Lexemes == {<<ChQuote>> \o inner \o <<ChQuote>> :
              inner \in SeqsUpTo({ChH, ChI, ChEacute}, MaxLexLen)}
LexHi == <<ChQuote, ChH, ChI, ChQuote>>
Hi == StrLit(LexHi)
LexI == <<ChQuote, ChI, ChQuote>>

\* one function, every parameter list
SigPrograms ==
    {<<TyItem(n, ps, <<>>)>> : n \in {"main", "A"}, ps \in SeqsUpTo(Params, MaxParams)}

Exprs ==
    {Hi, IntLit(1), Variable("x"),
     Call("println", <<Hi>>), Call("println", <<Variable("x")>>),
     Call("println", <<Variable("y")>>), Call("println", <<Variable("z")>>),
     Call("println", <<>>), Call("print", <<Hi>>),
     Call("int_to_string", <<IntLit(1)>>),
     Call("println", <<Call("int_to_string",
                            <<Call("int_add", <<IntLit(1), Variable("y")>>)>>)>>),
     Call("println", <<Call("print", <<Hi>>)>>),
     Call("println", <<Call("nope", <<Hi>>)>>),
     Call("nope", <<Hi>>), Call("main", <<>>), CallIndirect(<<>>),
     Call("int_add", <<Call("int_add", <<IntLit(1), Variable("y")>>),
                       Call("int_add", <<IntLit(2), IntLit(3)>>)>>),
     Call("sprintf", <<Hi, StrLit(LexI),
                       Call("sprintf", <<StrLit(LexI), StrLit(LexI)>>),
                       StrLit(LexI), Variable("x")>>)}
Stmts == {StmtItem} \cup {StmtExpr(e) : e \in Exprs}

\* one function main(x: String, y: Uint64), every body
BodyPrograms ==
    {<<TyItem("main", <<TyFnParam("x", TyString), TyFnParam("y", TyUint64)>>, b)>> :
        b \in SeqsUpTo(Stmts, MaxStmts)}

SmallBodies ==
    {<<>>, <<StmtExpr(Call("A", <<>>))>>, <<StmtExpr(Call("B", <<>>))>>,
     <<StmtExpr(Call("main", <<>>))>>, <<StmtExpr(Call("println", <<Hi>>))>>}
SmallItems ==
    {TyItem(n, <<>>, b) : n \in FnNames, b \in SmallBodies}
    \cup {TyItem("A", <<TyFnParam("x", TyPoint)>>, <<>>),
          TyItem("B", <<TyFnParam("x", TyString)>>,
                 <<StmtExpr(Call("B", <<Variable("x")>>))>>),
          TyItem("A", <<>>, <<StmtExpr(Call("println", <<>>))>>)}

\* several functions calling each other
ItemPrograms == SeqsUpTo(SmallItems, MaxItems)

\* one function main, every string literal, as a statement and as an argument
LitPrograms ==
    {<<TyItem("main", <<>>, <<StmtExpr(e)>>)>> :
        e \in {StrLit(l) : l \in Lexemes}
              \cup {Call("println", <<StrLit(l)>>) : l \in Lexemes}}

Programs == SigPrograms \cup BodyPrograms \cup ItemPrograms \cup LitPrograms

(* ------------------------------ the parser ----------------------------- *)
(* Parser<TokenStream> (crates/crane/src/parser.rs, parser/item.rs): the   *)
(* methods are operators on the parser's fields, the actions below are the *)
(* calls a user of the parser makes.  The token stream is a finite         *)
(* sequence of Ok(token) and Err(lex_error) elements.                      *)
Span(s, e) == [start |-> s, end |-> e]
Token(k, l, sp) == [kind |-> k, lexeme |-> l, span |-> sp]
LexError(k, sp) == [kind |-> k, span |-> sp]
\* Token::dummy()
DummyToken == Token("Dummy", "", Span(0, 0))
Ok(t) == [ok |-> TRUE, tok |-> t, err |-> LexError("", Span(0, 0))]
Err(e) == [ok |-> FALSE, tok |-> DummyToken, err |-> e]
Expected(t, w) == [tag |-> t, what |-> w]

ParseError(k, m, sp) == [kind |-> k, msg |-> m, span |-> sp]
NoError == ParseError("", "", Span(0, 0))
\* a ParseResult, with the parser it leaves and the statements still to come
PR(p, os, ok, v, e) == [p |-> p, os |-> os, ok |-> ok, val |-> v, err |-> e]
\* what the caller of parse or parse_ident gets
Outcome(r) == [ok |-> r.ok, val |-> r.val, err |-> r.err]
NoOutcome == [ok |-> FALSE, val |-> <<>>, err |-> NoError]
ParsedItem(k, n) == [kind |-> k, name |-> n]
NoneItem == ParsedItem("None", "")

\* the parser's fields as one value
Self ==
    [tokens |-> tokens, lex_errors |-> lex_errors,
     expected_tokens |-> expected_tokens, token |-> token,
     prev_token |-> prev_token]

RECURSIVE SkipComments(_)
\* the `continue` arm of advance's loop
SkipComments(ts) ==
    IF ts # <<>> /\ Head(ts).ok /\ Head(ts).tok.kind = "Comment"
    THEN SkipComments(Tail(ts))
    ELSE ts

\* the token unwrap_or builds when the loop found none
EofToken(t) == Token("Eof", "", Span(t.span.end, t.span.end + 1))

\* advance taking whatever element comes next, comments included
advance_no_skip(p) ==
    LET ts == p.tokens IN
    IF ts = <<>>
    THEN [p EXCEPT !.prev_token = p.token, !.token = EofToken(p.token)]
    ELSE IF Head(ts).ok
    THEN [p EXCEPT !.tokens = Tail(ts), !.prev_token = p.token,
                   !.token = Head(ts).tok]
    ELSE [p EXCEPT !.tokens = Tail(ts),
                   !.lex_errors = Append(@, Head(ts).err),
                   !.prev_token = p.token, !.token = EofToken(p.token)]

\* Parser::advance
advance(p) ==
    LET ts == SkipComments(p.tokens) IN
    IF ts = <<>>
    THEN [p EXCEPT !.tokens = <<>>, !.prev_token = p.token,
                   !.token = EofToken(p.token)]
    ELSE IF Head(ts).ok
    THEN [p EXCEPT !.tokens = Tail(ts), !.prev_token = p.token,
                   !.token = Head(ts).tok]
    ELSE [p EXCEPT !.tokens = Tail(ts),
                   !.lex_errors = Append(@, Head(ts).err),
                   !.prev_token = p.token, !.token = EofToken(p.token)]

\* Parser::is_at_end
is_at_end(p) == p.token.kind = "Eof"

\* Parser::check
check(p, kind) ==
    LET is_present == p.token.kind = kind IN
    [p |-> IF is_present THEN p
           ELSE [p EXCEPT !.expected_tokens = Append(@, Expected("Token", kind))],
     ret |-> is_present]

\* Token::is_keyword: an identifier spelled as the keyword
is_keyword(t, keyword) == t.kind = "Ident" /\ t.lexeme = keyword

\* Parser::check_keyword
check_keyword(p, keyword) ==
    [p |-> [p EXCEPT !.expected_tokens = Append(@, Expected("Keyword", keyword))],
     ret |-> is_keyword(p.token, keyword)]

\* consume advancing whether or not the token is present
consume_always(p, kind) ==
    LET c == check(p, kind) IN [p |-> advance(c.p), ret |-> c.ret]

\* Parser::consume
consume(p, kind) ==
    LET c == check(p, kind) IN
    IF c.ret THEN [p |-> advance(c.p), ret |-> TRUE] ELSE c

\* Parser::consume_keyword
consume_keyword(p, keyword) ==
    LET c == check_keyword(p, keyword) IN
    IF c.ret THEN [p |-> advance(c.p), ret |-> TRUE]
    ELSE [p |-> c.p, ret |-> FALSE]

\* Parser::parse_ident; Token::ident is Some for an identifier token
parse_ident(p) ==
    IF p.token.kind = "Ident"
    THEN PR(advance(p), <<>>, TRUE, p.token.lexeme, NoError)
    ELSE PR(p, <<>>, FALSE, <<>>,
            ParseError("Error", "Expected an identifier", p.token.span))

\* Parser::parse_stmt, whose code is in parser/stmt.rs: each call either
\* finds no statement, or takes one token as a statement, or fails, as the
\* sequence os says; no statement when os is used up
parse_stmt(p, os) ==
    IF os = <<>> THEN PR(p, os, TRUE, "none", NoError)
    ELSE IF Head(os) = "stmt" THEN PR(advance(p), Tail(os), TRUE, "stmt", NoError)
    ELSE PR(p, Tail(os), FALSE, <<>>,
            ParseError("Error", "Expected a statement", p.token.span))

\* `let v = x;` followed by F(v): x is computed once
Bind(x, F(_)) == CHOOSE r \in {F(v) : v \in {x}} : TRUE

RECURSIVE fn_params(_)
\* the parameter loop of parse_fn
fn_params(p) ==
    Bind(parse_ident(p), LAMBDA param_name :
    IF ~param_name.ok THEN param_name
    ELSE Bind(parse_ident(consume(param_name.p, "Colon").p), LAMBDA ty_annotation :
    IF ~ty_annotation.ok THEN ty_annotation
    ELSE Bind(consume(ty_annotation.p, "Comma"), LAMBDA comma :
    IF comma.ret THEN fn_params(comma.p)
    ELSE PR(comma.p, <<>>, TRUE, <<>>, NoError))))

RECURSIVE fn_body(_, _)
\* while let Some(stmt) = self.parse_stmt()?
fn_body(p, os) ==
    Bind(parse_stmt(p, os), LAMBDA stmt :
    IF ~stmt.ok \/ stmt.val = "none" THEN stmt
    ELSE fn_body(stmt.p, stmt.os))

\* Parser::parse_fn
parse_fn(p, os) ==
    Bind(parse_ident(p), LAMBDA ident :
    IF ~ident.ok THEN ident
    ELSE Bind(check(consume(ident.p, "OpenParen").p, "CloseParen"), LAMBDA open :
    Bind(IF ~open.ret THEN fn_params(open.p)
         ELSE PR(open.p, <<>>, TRUE, <<>>, NoError), LAMBDA params :
    IF ~params.ok THEN params
    ELSE Bind(consume(consume(params.p, "CloseParen").p, "RightArrow"), LAMBDA arrow :
    Bind(IF arrow.ret THEN parse_ident(arrow.p)
         ELSE PR(arrow.p, <<>>, TRUE, <<>>, NoError), LAMBDA return_ty :
    IF ~return_ty.ok THEN return_ty
    ELSE Bind(fn_body(consume(return_ty.p, "OpenBrace").p, os), LAMBDA body :
    IF ~body.ok THEN body
    ELSE PR(consume(body.p, "CloseBrace").p, body.os, TRUE,
            ParsedItem("Fn", ident.val), NoError)))))))

RECURSIVE struct_fields(_)
\* the field loop of parse_struct_decl
struct_fields(p) ==
    Bind(parse_ident(p), LAMBDA field_name :
    IF ~field_name.ok THEN field_name
    ELSE Bind(parse_ident(consume(field_name.p, "Colon").p), LAMBDA ty_annotation :
    IF ~ty_annotation.ok THEN ty_annotation
    ELSE Bind(check(consume(ty_annotation.p, "Comma").p, "CloseBrace"), LAMBDA close :
    IF close.ret THEN PR(close.p, <<>>, TRUE, <<>>, NoError)
    ELSE struct_fields(close.p))))

\* Parser::parse_struct_decl
parse_struct_decl(p, os) ==
    Bind(parse_ident(p), LAMBDA ident :
    IF ~ident.ok THEN ident
    ELSE Bind(check(consume(ident.p, "OpenBrace").p, "CloseBrace"), LAMBDA open :
    Bind(IF ~open.ret THEN struct_fields(open.p)
         ELSE PR(open.p, <<>>, TRUE, <<>>, NoError), LAMBDA fields :
    IF ~fields.ok THEN fields
    ELSE PR(consume(fields.p, "CloseBrace").p, os, TRUE,
            ParsedItem("Struct", ident.val), NoError))))

RECURSIVE union_variants(_)
\* the variant loop of parse_union_decl
union_variants(p) ==
    Bind(parse_ident(p), LAMBDA variant_name :
    IF ~variant_name.ok THEN variant_name
    ELSE Bind(check(consume(variant_name.p, "Comma").p, "CloseBrace"), LAMBDA close :
    IF close.ret THEN PR(close.p, <<>>, TRUE, <<>>, NoError)
    ELSE union_variants(close.p)))

\* Parser::parse_union_decl
parse_union_decl(p, os) ==
    Bind(parse_ident(p), LAMBDA ident :
    IF ~ident.ok THEN ident
    ELSE Bind(check(consume(ident.p, "OpenBrace").p, "CloseBrace"), LAMBDA open :
    Bind(IF ~open.ret THEN union_variants(open.p)
         ELSE PR(open.p, <<>>, TRUE, <<>>, NoError), LAMBDA variants :
    IF ~variants.ok THEN variants
    ELSE PR(consume(variants.p, "CloseBrace").p, os, TRUE,
            ParsedItem("Union", ident.val), NoError))))

\* Parser::parse_item_kind; NoneItem stands for Ok(None)
parse_item_kind(p, os) ==
    Bind(consume_keyword(p, "fn"), LAMBDA fn :
    IF fn.ret THEN parse_fn(fn.p, os)
    ELSE Bind(consume_keyword(fn.p, "struct"), LAMBDA struct :
    IF struct.ret THEN parse_struct_decl(struct.p, os)
    ELSE Bind(consume_keyword(struct.p, "union"), LAMBDA union :
    IF union.ret THEN parse_union_decl(union.p, os)
    ELSE PR(union.p, os, TRUE, NoneItem, NoError))))

\* Parser::parse_item
parse_item(p, os) ==
    Bind(consume_keyword(p, "pub"), LAMBDA pub : parse_item_kind(pub.p, os))

RECURSIVE parse_module_items(_, _, _)
\* Parser::parse_module_items
parse_module_items(p, os, items) ==
    Bind(parse_item(p, os), LAMBDA parsed :
    IF ~parsed.ok THEN parsed
    ELSE IF parsed.val = NoneItem THEN PR(parsed.p, parsed.os, TRUE, items, NoError)
    ELSE parse_module_items(parsed.p, parsed.os, Append(items, parsed.val)))

\* ensure_no_errors handing a failed parse_result back before looking at
\* the lexing errors
ensure_no_errors_after(p, parse_result) ==
    IF ~parse_result.ok THEN parse_result
    ELSE IF p.lex_errors # <<>>
    THEN PR(p, parse_result.os, FALSE, <<>>,
            ParseError("LexError", p.lex_errors[1].kind, p.lex_errors[1].span))
    ELSE parse_result

\* Parser::ensure_no_errors
ensure_no_errors(p, parse_result) ==
    IF p.lex_errors # <<>>
    THEN PR(p, parse_result.os, FALSE, <<>>,
            ParseError("LexError", p.lex_errors[1].kind, p.lex_errors[1].span))
    ELSE parse_result

\* Parser::parse
parse(p, os) ==
    Bind(parse_module_items(p, os, <<>>), LAMBDA parsed :
    Bind(ensure_no_errors(parsed.p, parsed), LAMBDA items :
    IF ~items.ok THEN items
    ELSE IF ~is_at_end(items.p)
    THEN PR(items.p, items.os, FALSE, <<>>,
            ParseError("Error", "Expected end of file", items.p.token.span))
    ELSE items))

(* the token streams and the calls explored *)
\* what an element of a stream is, its span left aside
Shape(ok, k, l) == [ok |-> ok, kind |-> k, lexeme |-> l]
ShortShapes ==
    {Shape(TRUE, "Ident", "fn"), Shape(TRUE, "Ident", "x"),
     Shape(TRUE, "CloseBrace", "}"), Shape(TRUE, "Comment", "//"),
     Shape(FALSE, "UnexpectedChar", "")}
LongShapes ==
    ShortShapes \cup
    {Shape(TRUE, "Ident", "struct"), Shape(TRUE, "Ident", "union"),
     Shape(TRUE, "CloseParen", ")")}
\* the stream of these shapes: element i spans i-1..i
Stream(shapes) ==
    [i \in 1..Len(shapes) |->
        IF shapes[i].ok
        THEN Ok(Token(shapes[i].kind, shapes[i].lexeme, Span(i - 1, i)))
        ELSE Err(LexError(shapes[i].kind, Span(i - 1, i)))]
ShortStreams == {Stream(sh) : sh \in SeqsUpTo(ShortShapes, MaxShort)}
LongStreams == {Stream(sh) : sh \in SeqsUpTo(LongShapes, MaxTokens)}
ConsumeKinds == {"Ident", "CloseBrace", "Eof"}
Keywords == {"fn", "struct"}
StmtOracles == SeqsUpTo({"stmt", "err"}, MaxParsedStmts)
Method(op, arg) == [op |-> op, arg |-> arg]

\* no parser exists while the backend runs
NoParser ==
    /\ input = <<>>
    /\ tokens = <<>>
    /\ lex_errors = <<>>
    /\ expected_tokens = <<>>
    /\ token = DummyToken
    /\ prev_token = DummyToken
    /\ pstate = "none"
    /\ budget = 0
    /\ called = Method("", "")
    /\ ret = FALSE
    /\ result = NoOutcome
    /\ items_result = NoOutcome

\* the backend does not run while the parser is used
NoCompile ==
    /\ program = <<>>
    /\ rest = <<>>
    /\ item = NoItem
    /\ si = 0
    /\ cur = 0
    /\ pc = "idle"
    /\ status = "idle"
    /\ panic = NoPanic
    /\ functions = <<>>
    /\ globals = <<>>
    /\ lastUnique = 0
    /\ stderr = <<>>
    /\ out = <<>>

\* the fields after p's method returned
Becomes(p) ==
    /\ tokens' = p.tokens
    /\ lex_errors' = p.lex_errors
    /\ expected_tokens' = p.expected_tokens
    /\ token' = p.token
    /\ prev_token' = p.prev_token

\* Parser::new up to its struct literal
InitParser ==
    /\ NoCompile
    /\ \/ input \in ShortStreams /\ budget = MaxCalls
       \/ input \in LongStreams /\ budget = 1
    /\ tokens = input
    /\ lex_errors = <<>>
    /\ expected_tokens = <<>>
    /\ token = DummyToken
    /\ prev_token = DummyToken
    /\ pstate = "created"
    /\ called = Method("", "")
    /\ ret = FALSE
    /\ result = NoOutcome
    /\ items_result = NoOutcome

\* the rest of Parser::new: parser.advance()
New ==
    /\ pstate = "created"
    /\ Becomes(advance(Self))
    /\ pstate' = "ready"
    /\ called' = Method("new", "")
    /\ UNCHANGED <<cvars, input, budget, ret, result, items_result>>

\* a call of advance
Advance ==
    /\ pstate = "ready" /\ budget > 0
    /\ Becomes(advance(Self))
    /\ budget' = budget - 1
    /\ called' = Method("advance", "")
    /\ UNCHANGED <<cvars, input, pstate, ret, result, items_result>>

\* a call of consume(kind)
Consume ==
    /\ pstate = "ready" /\ budget > 0
    /\ \E kind \in ConsumeKinds :
         LET r == consume(Self, kind) IN
         /\ Becomes(r.p)
         /\ ret' = r.ret
         /\ called' = Method("consume", kind)
    /\ budget' = budget - 1
    /\ UNCHANGED <<cvars, input, pstate, result, items_result>>

\* a call of consume_keyword(keyword)
ConsumeKeyword ==
    /\ pstate = "ready" /\ budget > 0
    /\ \E keyword \in Keywords :
         LET r == consume_keyword(Self, keyword) IN
         /\ Becomes(r.p)
         /\ ret' = r.ret
         /\ called' = Method("consume_keyword", keyword)
    /\ budget' = budget - 1
    /\ UNCHANGED <<cvars, input, pstate, result, items_result>>

\* a call of parse_ident()
ParseIdent ==
    /\ pstate = "ready" /\ budget > 0
    /\ LET r == parse_ident(Self) IN
         /\ Becomes(r.p)
         /\ result' = Outcome(r)
    /\ called' = Method("parse_ident", "")
    /\ budget' = budget - 1
    /\ UNCHANGED <<cvars, input, pstate, ret, items_result>>

\* the call of parse(), which consumes the parser
Parse ==
    /\ pstate = "ready"
    /\ \E os \in StmtOracles :
         \E r \in {parse(Self, os)},
            items \in {parse_module_items(Self, os, <<>>)} :
           /\ Becomes(r.p)
           /\ result' = Outcome(r)
           /\ items_result' = Outcome(items)
    /\ pstate' = "parsed"
    /\ called' = Method("parse", "")
    /\ UNCHANGED <<cvars, input, budget, ret>>

NextParser ==
    \/ New
    \/ Advance
    \/ Consume
    \/ ConsumeKeyword
    \/ ParseIdent
    \/ Parse

SpecParser == InitParser /\ [][NextParser]_vars

(* ------------------------------ the specification ---------------------- *)
Init ==
    /\ program \in Programs
    /\ rest = program
    /\ item = NoItem
    /\ si = 0
    /\ cur = 0
    /\ pc = "puts"
    /\ status = "running"
    /\ panic = NoPanic
    /\ functions = <<>>
    /\ globals = <<>>
    /\ lastUnique = 0
    /\ stderr = <<>>
    /\ out = <<>>
    /\ NoParser

Next ==
    \/ DefinePuts
    \/ DefineSprintf
    \/ DefinePrintf
    \/ DefinePrint
    \/ DefinePrintln
    \/ DefineIntAdd
    \/ DefineIntToString
    \/ ForNext
    \/ DeclareFn
    \/ LowerStmt
    \/ BuildReturn
    \/ VerifyUserFn
    \/ PrintToFile
    \/ WriteObject
    \/ WriteBitcode
    \/ Link
    \/ Report

Spec == Init /\ [][Next]_vars

(* ------------------------------ properties ----------------------------- *)
PreludeNames ==
    {"puts", "printf", "sprintf", "print", "println", "int_add", "int_to_string"}
NPrelude == Cardinality(PreludeNames)

\* the functions of the module that come from user items
UserIdx == (NPrelude + 1)..Len(functions)
\* the item the i-th function of the module was lowered from
ItemOf(i) == program[Len(program) - (i - NPrelude) + 1]
\* the position in the program of the item being lowered
CurIdx == Len(rest) + 1
DeclaredAfter(i) == {program[j].name : j \in (i + 1)..Len(program)}

RECURSIVE Callees(_)
\* the names an expression calls, at any depth
Callees(e) ==
    IF e.kind \in {"Call", "CallIndirect"}
    THEN (IF e.kind = "Call" THEN {e.name} ELSE {})
         \cup UNION {Callees(e.args[k]) : k \in 1..Len(e.args)}
    ELSE {}
BodyCallees(b) ==
    UNION {Callees(b[k].expr) : k \in {j \in 1..Len(b) : b[j].kind = "Expr"}}

\* C1: once the prelude blocks are done (so when the first user item is
\* reached, and in every later state, panicked ones included), each of the
\* seven prelude names resolves in the module to its prelude function.
C1_PreludeAlwaysPresent ==
    pc \notin PreludeNames =>
        \A n \in PreludeNames : GetFunction(functions, n) \in 1..NPrelude

\* the first user item is about to be lowered, and it calls nothing
C1_Witness ==
    /\ pc = "sig" /\ cur = 0 /\ Len(functions) = NPrelude
    /\ BodyCallees(item.body) = {}

\* C2: items are lowered in the reverse of their declaration order: the
\* iterator has yielded exactly the items declared after the remaining ones,
\* the user functions of the module are those items, last declared first; so
\* when a statement of an item is about to be lowered, every name it calls
\* that a later-declared item declares is in the symbol table, and a lowered
\* top-level call to such a name is a call instruction to the function the
\* table holds under that name.
C2_ReverseOrderResolves ==
    /\ rest = SubSeq(program, 1, Len(rest))
    /\ pc \in {"sig", "body", "verify"} => item = program[CurIdx]
    /\ Len(functions) <= NPrelude + (Len(program) - Len(rest))
    /\ \A i \in UserIdx : functions[i].sym.base = ItemOf(i).name
    /\ (pc = "body" /\ si <= Len(item.body) /\ item.body[si].kind = "Expr")
         => \A n \in Callees(item.body[si].expr) \cap DeclaredAfter(CurIdx) :
               GetFunction(functions, n) # 0
    /\ pc \in {"body", "verify"} =>
         \A k \in 1..(si - 1) :
            (/\ k <= Len(item.body)
             /\ item.body[k].kind = "Expr"
             /\ item.body[k].expr.kind = "Call"
             /\ item.body[k].expr.name \in DeclaredAfter(CurIdx))
            => \E j \in 1..Len(functions[cur].body) :
                  /\ functions[cur].body[j].op = "call"
                  /\ functions[cur].body[j].callee =
                        GetFunction(functions, item.body[k].expr.name)
                  /\ functions[cur].body[j].callee # 0

\* A (declared first) calls B (declared second); the call has been lowered
C2_Witness ==
    /\ Len(program) = 2 /\ CurIdx = 1
    /\ program[1].name = "A" /\ program[2].name = "B"
    /\ pc = "body" /\ si = 2
    /\ item.body[1] = StmtExpr(Call("B", <<>>))
    /\ functions[cur].body[1].op = "call"
    /\ functions[functions[cur].body[1].callee].sym = Sym("B", 0)
    /\ functions[cur].body[1].callee = NPrelude + 1

\* a program of exactly two functions of different names, neither a prelude
\* name, each calling the other
Mutual ==
    /\ Len(program) = 2
    /\ program[1].name # program[2].name
    /\ {program[1].name, program[2].name} \cap PreludeNames = {}
    /\ program[2].name \in BodyCallees(program[1].body)
    /\ program[1].name \in BodyCallees(program[2].body)

\* C3: compiling two mutually recursive functions fails.  The first declared
\* one never enters the symbol table and never starts being lowered; the
\* compilation never returns and never reaches emission; a panic can only
\* happen while the later-declared function is lowered; and when the
\* statement it stops at is the call to the first-declared function, the
\* panic is that call's failure, reported under that name.
C3_MutualRecursionFails ==
    Mutual =>
        /\ GetFunction(functions, program[1].name) = 0
        /\ Len(functions) <= NPrelude + 1
        /\ Len(rest) >= 1
        /\ status # "returned"
        /\ out = <<>>
        /\ pc \in PreludeNames \cup {"loop", "sig", "body"}
        /\ (pc = "loop" => rest = program)
        /\ status = "panicked" => item = program[2]
        /\ (/\ status = "panicked" /\ pc = "body"
            /\ item.body[si] = StmtExpr(Call(program[1].name, <<>>)))
           => /\ panic = Panic("call_failed", program[1].name)
              /\ stderr = <<NotFound(program[1].name)>>

\* B, lowered first, has failed on its call to A
C3_Witness ==
    /\ Mutual
    /\ status = "panicked" /\ pc = "body"
    /\ item = program[2]
    /\ panic = Panic("call_failed", program[1].name)

\* the body of function i is complete: its return has been built
Finished(i) == ~(i = cur /\ pc = "body")
LastInst(f) == f.body[Len(f.body)]

\* C4: a user function lowered from an item named main returns i32 and its
\* finished body ends with `ret i32 0`; any other user function returns void
\* and its finished body ends with a bare `ret`; no body has a second return,
\* and no function other than main returns a value anywhere.
C4_MainSpecialization ==
    \A i \in UserIdx :
        LET f == functions[i]
            isMain == ItemOf(i).name = "main"
        IN /\ f.ret = (IF isMain THEN "i32" ELSE "void")
           /\ Finished(i) =>
                /\ Len(f.body) > 0
                /\ LastInst(f).op = "ret"
                /\ LastInst(f).args =
                      (IF isMain THEN <<Val("const", "i32", 0)>> ELSE <<>>)
           /\ \A k \in 1..Len(f.body) :
                f.body[k].op = "ret" =>
                    /\ k = Len(f.body)
                    /\ (~isMain => f.body[k].args = <<>>)

\* a compilation that went through with both a main and another function
C4_Witness ==
    /\ pc = "done"
    /\ \E i \in UserIdx : ItemOf(i).name = "main" /\ functions[i].ret = "i32"
    /\ \E i \in UserIdx : ItemOf(i).name # "main" /\ functions[i].ret = "void"

Supported(ty) == ty \in {TyString, TyUint64}
AllSupported(ps) == \A k \in 1..Len(ps) : Supported(ps[k].ty)

\* C5: a user function whose declared parameters are all String or Uint64
\* has as many machine parameters as declared ones, the k-th being a pointer
\* for String and a 64-bit integer for Uint64, named as the k-th declared one.
C5_ParameterMapping ==
    \A i \in UserIdx :
        LET f == functions[i]
            ps == ItemOf(i).params
        IN AllSupported(ps) =>
            /\ Len(f.params) = Len(ps)
            /\ ~f.variadic
            /\ \A k \in 1..Len(ps) :
                 /\ (ps[k].ty = TyString => f.params[k].ty = "ptr")
                 /\ (ps[k].ty = TyUint64 => f.params[k].ty = "i64")
                 /\ f.params[k].name = ps[k].name

\* a function declared (x: Uint64, y: String) is in the module
C5_Witness ==
    \E i \in UserIdx :
        /\ ItemOf(i).params = <<TyFnParam("x", TyUint64), TyFnParam("y", TyString)>>
        /\ functions[i].params = <<MParam("i64", "x"), MParam("ptr", "y")>>

EmissionPcs == {"emit_ll", "emit_obj", "emit_bc", "link", "report", "done"}
BadItem(it) == ~AllSupported(it.params)
\* the first parameter (1-based) of an item that has an unsupported type
FirstBad(it) ==
    CHOOSE k \in 1..Len(it.params) :
        /\ ~Supported(it.params[k].ty)
        /\ \A j \in 1..(k - 1) : Supported(it.params[j].ty)

\* C6: a function with a parameter that is neither String nor Uint64 is
\* never added to the module and its body is never reached; the panic at its
\* signature is about its first such parameter (todo for a function type,
\* unknown type otherwise); the items declared before it are never yielded by
\* the loop, and nothing is emitted.
C6_UnsupportedParamAborts ==
    /\ \A i \in UserIdx : AllSupported(ItemOf(i).params)
    /\ pc \in {"body", "verify"} => AllSupported(item.params)
    /\ \A i \in 1..Len(program) :
         BadItem(program[i]) =>
            /\ Len(rest) >= i - 1
            /\ Len(functions) <= NPrelude + (Len(program) - i)
            /\ out = <<>>
            /\ status # "returned"
            /\ pc \notin EmissionPcs
    /\ (pc = "sig" /\ status = "panicked") =>
         /\ BadItem(item)
         /\ Len(functions) = NPrelude + (Len(program) - CurIdx)
         /\ panic.name = item.params[FirstBad(item)].name
         /\ panic.kind = (IF item.params[FirstBad(item)].ty.tag = "Fn"
                          THEN "todo" ELSE "unknown_type")

\* the second declared (first lowered) of two items has a parameter of an
\* unknown type: the compilation stopped there, the first item never lowered
C6_Witness ==
    /\ Len(program) = 2 /\ CurIdx = 2
    /\ pc = "sig" /\ status = "panicked"
    /\ panic.kind = "unknown_type"
    /\ rest = <<program[1]>>
    /\ Len(functions) = NPrelude

RECURSIVE ExprLits(_)
RECURSIVE ArgsLits(_)
\* the string literals of an expression, left to right, arguments first
ExprLits(e) ==
    IF e.kind = "Str" THEN <<e.lex>>
    ELSE IF e.kind \in {"Call", "CallIndirect"} THEN ArgsLits(e.args)
    ELSE <<>>
ArgsLits(a) == IF a = <<>> THEN <<>> ELSE ExprLits(Head(a)) \o ArgsLits(Tail(a))
RECURSIVE BodyLits(_)
BodyLits(b) ==
    IF b = <<>> THEN <<>>
    ELSE (IF Head(b).kind = "Expr" THEN ExprLits(Head(b).expr) ELSE <<>>)
         \o BodyLits(Tail(b))
RECURSIVE ProgLits(_)
\* the string literals of a program, last declared item first
ProgLits(p) ==
    IF p = <<>> THEN <<>>
    ELSE BodyLits(p[Len(p)].body) \o ProgLits(SubSeq(p, 1, Len(p) - 1))

StringLitGlobals == SelectSeq(globals, LAMBDA g : g.sym.base = "string_lit")
Quoted(l) == Len(l) >= 2 /\ l[1] = ChQuote /\ l[Len(l)] = ChQuote
\* the bytes of a lexeme
Bytes(l) == Flatten(l)

\* C7: the k-th string-literal global of the module comes from the k-th
\* string literal of the program in lowering order; for a lexeme with its
\* quotes it is a private constant whose array type has (byte length of the
\* lexeme - 2) + 1 elements and whose contents are the lexeme's bytes without
\* the first and the last, then one NUL; for "hi" that is h, i, NUL, length 3.
C7_StringLiteralUnquoted ==
    LET gs == StringLitGlobals
        lits == ProgLits(program)
    IN /\ Len(gs) <= Len(lits)
       /\ \A k \in 1..Len(gs) :
            Quoted(lits[k]) =>
               /\ gs[k].init = SubSeq(Bytes(lits[k]), 2, Len(Bytes(lits[k])) - 1) \o <<0>>
               /\ gs[k].len = (Len(Bytes(lits[k])) - 2) + 1
               /\ Len(gs[k].init) = gs[k].len
               /\ gs[k].linkage = "internal" /\ gs[k].constant
               /\ (lits[k] = LexHi => gs[k].init = <<104, 105, 0>> /\ gs[k].len = 3)

\* a program with the literal "hi" has its global
C7_Witness ==
    /\ LexHi \in {ProgLits(program)[k] : k \in 1..Len(ProgLits(program))}
    /\ \E k \in 1..Len(StringLitGlobals) :
         /\ ProgLits(program)[k] = LexHi
         /\ StringLitGlobals[k].init = <<104, 105, 0>>

\* the next statement is a call of a name the symbol table does not hold
AbsentCallNext ==
    /\ pc = "body" /\ status = "running"
    /\ si <= Len(item.body)
    /\ item.body[si].kind = "Expr"
    /\ item.body[si].expr.kind = "Call"
    /\ GetFunction(functions, item.body[si].expr.name) = 0

\* C8: lowering a statement that calls an absent name panics at once, after
\* one more error line that carries that name, without adding an instruction;
\* and whenever an unresolved callee has been reported (directly or as an
\* argument), the compilation is stopped inside that body, the reported name
\* is the one the panic is about and is not in the symbol table, and nothing
\* at all has been emitted.
C8_UnresolvedCallAborts ==
    /\ [][AbsentCallNext =>
            /\ status' = "panicked"
            /\ panic' = Panic("call_failed", item.body[si].expr.name)
            /\ Len(stderr') = Len(stderr) + 1
            /\ stderr'[Len(stderr')].name = item.body[si].expr.name
            /\ functions' = functions
            /\ out' = <<>>]_vars
    /\ [](stderr # <<>> =>
            /\ status = "panicked" /\ pc = "body"
            /\ panic.kind \in {"call_failed", "unwrap_err"}
            /\ stderr[Len(stderr)].name = panic.name
            /\ panic.name \in Callees(item.body[si].expr)
            /\ GetFunction(functions, panic.name) = 0
            /\ out = <<>>)

\* a call of the absent name nope has stopped the compilation
C8_Witness ==
    /\ status = "panicked"
    /\ panic = Panic("call_failed", "nope")
    /\ stderr # <<>> /\ stderr[Len(stderr)].name = "nope"
    /\ out = <<>>

EvNames == [k \in 1..Len(out) |-> out[k].ev]
FullRun ==
    <<"main.ll", "main.o:create", "main.o:object", "main.o:bitcode",
      "clang:exit", "stdout:clang exited">>
Steps(n) == SubSeq(FullRun, 1, n)

\* C9: nothing is emitted before the loop has lowered and verified every
\* item; the emission events happen in the order IR file, object file
\* created and written, bitcode appended, linker run, status printed; and a
\* step that fails leaves exactly the events of the steps before it (and, for
\* a failed write or spawn, its own), none of a later step.
C9_EmissionOrder ==
    /\ pc \notin EmissionPcs => out = <<>>
    /\ pc \in EmissionPcs =>
         /\ rest = <<>>
         /\ Len(functions) = NPrelude + Len(program)
         /\ \A i \in 1..Len(functions) :
              /\ functions[i].verified
              /\ Finished(i)
              /\ functions[i].hasBody => LastInst(functions[i]).op = "ret"
    /\ pc = "emit_ll" => out = <<>>
    /\ pc = "emit_obj" =>
         IF status = "running" THEN EvNames = Steps(1)
         ELSE EvNames \in {Steps(1), Steps(2)}
    /\ pc = "emit_bc" => EvNames = Steps(3)
    /\ pc = "link" =>
         IF status = "running" THEN EvNames = Steps(4)
         ELSE EvNames = Steps(4) \o <<"clang:spawn_failed">>
    /\ pc = "report" => EvNames = Steps(5) /\ status = "running"
    /\ pc = "done" => EvNames = FullRun /\ status = "returned"

\* a two-item program went through every emission step
C9_Witness ==
    /\ pc = "done" /\ Len(program) = 2
    /\ EvNames = FullRun

ClangEvents ==
    {k \in 1..Len(out) : out[k].ev \in {"clang:exit", "clang:spawn_failed"}}

\* C10: the linker is run at most once.  When it was spawned, whatever its
\* exit status, compile is not panicked: it is about to print the status or
\* has printed that same status as its last act and returned.  When it could
\* not be spawned, compile panicked there and printed nothing.  compile
\* returns only after the linker has exited.
C10_LinkerOutcome ==
    /\ Cardinality(ClangEvents) <= 1
    /\ \A k \in 1..Len(out) :
         /\ out[k].ev = "clang:exit" =>
              IF k = Len(out)
              THEN status = "running" /\ pc = "report"
              ELSE /\ k + 1 = Len(out)
                   /\ out[k + 1] = Event("stdout:clang exited", out[k].code)
                   /\ status = "returned" /\ pc = "done"
         /\ out[k].ev = "clang:spawn_failed" =>
              /\ k = Len(out)
              /\ status = "panicked" /\ pc = "link"
              /\ panic = Panic("spawn", "clang")
    /\ status = "returned" => \E k \in 1..Len(out) : out[k].ev = "clang:exit"

\* the linker exited with status 1; compile printed it and returned
C10_Witness ==
    /\ status = "returned" /\ pc = "done"
    /\ out[Len(out) - 1] = Event("clang:exit", 1)
    /\ out[Len(out)] = Event("stdout:clang exited", 1)

\* the next statement is an expression of kind k
ExprStmtNext(k) ==
    /\ pc = "body" /\ status = "running"
    /\ si <= Len(item.body)
    /\ item.body[si].kind = "Expr"
    /\ item.body[si].expr.kind = k
\* the declared position of the first parameter named n, 0 when there is none
FirstNamed(ps, n) ==
    IF \A k \in 1..Len(ps) : ps[k].name # n THEN 0
    ELSE CHOOSE k \in 1..Len(ps) :
            ps[k].name = n /\ \A j \in 1..(k - 1) : ps[j].name # n
\* the next statement is a call of a known function whose arguments are
\* literals and variable references only
FlatCallNext ==
    /\ ExprStmtNext("Call")
    /\ GetFunction(functions, item.body[si].expr.name) # 0
    /\ \A k \in 1..Len(item.body[si].expr.args) :
          item.body[si].expr.args[k].kind \in {"Str", "Int", "Var"}
\* the arguments of the next call that name no parameter
Unbound(args) ==
    {k \in 1..Len(args) :
        args[k].kind = "Var" /\ FirstNamed(item.params, args[k].name) = 0}

\* C11: a variable reference is resolved against the parameters of the
\* enclosing function, first match in declaration order, and lowered to the
\* machine parameter at that index; a name no parameter has aborts the
\* compilation.  As a call argument: the call instruction receives that
\* machine parameter, or the compilation panics on the first unbound name.
\* As an expression statement: a reference that names a parameter is lowered
\* and the loop goes on to the next statement, one that names none panics.
C11_VariableResolvesEverywhere ==
    [][/\ FlatCallNext =>
            LET args == item.body[si].expr.args IN
            IF Unbound(args) = {}
            THEN /\ status' = "running" /\ si' = si + 1
                 /\ LET ins == LastInst(functions'[cur]) IN
                    \A k \in 1..Len(args) :
                       args[k].kind = "Var" =>
                          LET idx == FirstNamed(item.params, args[k].name)
                          IN ins.args[k] = Val("param", functions[cur].params[idx].ty, idx - 1)
            ELSE /\ status' = "panicked"
                 /\ panic'.kind = "param_not_found"
                 /\ \E k \in Unbound(args) :
                       /\ panic'.name = args[k].name
                       /\ \A j \in Unbound(args) : k <= j
       /\ ExprStmtNext("Var") =>
            IF FirstNamed(item.params, item.body[si].expr.name) # 0
            THEN status' = "running" /\ si' = si + 1
            ELSE status' = "panicked"
      ]_vars

\* the part of C11 about call arguments alone
C11_ArgumentsOnly ==
    [][FlatCallNext =>
            LET args == item.body[si].expr.args IN
            IF Unbound(args) = {}
            THEN /\ status' = "running" /\ si' = si + 1
                 /\ LET ins == LastInst(functions'[cur]) IN
                    \A k \in 1..Len(args) :
                       args[k].kind = "Var" =>
                          LET idx == FirstNamed(item.params, args[k].name)
                          IN ins.args[k] = Val("param", functions[cur].params[idx].ty, idx - 1)
            ELSE /\ status' = "panicked"
                 /\ panic'.kind = "param_not_found"
      ]_vars

RECURSIVE CallShape(_, _, _)
\* instruction j of body b is the call instruction of the call expression e:
\* as many arguments as e has, the k-th being the value of e's k-th argument,
\* a nested call's value being the result of an earlier instruction that is
\* that nested call
CallShape(b, j, e) ==
    /\ j \in 1..Len(b)
    /\ b[j].op = "call"
    /\ b[j].callee = GetFunction(functions, e.name)
    /\ Len(b[j].args) = Len(e.args)
    /\ \A k \in 1..Len(e.args) :
         LET a == b[j].args[k]
             x == e.args[k]
         IN CASE x.kind = "Str" ->
                   /\ a.vk = "global" /\ a.n \in 1..Len(globals)
                   /\ globals[a.n].init =
                         SubSeq(Bytes(x.lex), 2, Len(Bytes(x.lex)) - 1) \o <<0>>
              [] x.kind = "Int" -> a = Val("const", "i64", x.num)
              [] x.kind = "Var" ->
                   a.vk = "param" /\ a.n = FirstNamed(item.params, x.name) - 1
              [] OTHER ->
                   /\ a.vk = "inst" /\ a.n < j
                   /\ CallShape(b, a.n, x)

RECURSIVE InstsOf(_, _, _)
\* the instructions the call e, lowered as instruction j, was lowered to
InstsOf(b, j, e) ==
    {j} \cup UNION {InstsOf(b, b[j].args[k].n, e.args[k]) :
                      k \in {i \in 1..Len(e.args) : e.args[i].kind = "Call"}}
RECURSIVE GlobalsOf(_, _, _)
\* the globals the call e, lowered as instruction j, created
GlobalsOf(b, j, e) ==
    {b[j].args[k].n : k \in {i \in 1..Len(e.args) : e.args[i].kind = "Str"}}
    \cup UNION {GlobalsOf(b, b[j].args[k].n, e.args[k]) :
                  k \in {i \in 1..Len(e.args) : e.args[i].kind = "Call"}}
\* what the k-th argument of e alone produced
ArgInsts(b, j, e, k) ==
    IF e.args[k].kind = "Call" THEN InstsOf(b, b[j].args[k].n, e.args[k]) ELSE {}
ArgGlobals(b, j, e, k) ==
    IF e.args[k].kind = "Str" THEN {b[j].args[k].n}
    ELSE IF e.args[k].kind = "Call" THEN GlobalsOf(b, b[j].args[k].n, e.args[k])
    ELSE {}

RECURSIVE LeftToRight(_, _, _)
\* everything argument k produced precedes everything a later argument
\* produced and the call instruction itself, at every depth
LeftToRight(b, j, e) ==
    /\ \A k \in 1..Len(e.args) :
         /\ \A p \in ArgInsts(b, j, e, k) : p < j
         /\ \A m \in (k + 1)..Len(e.args) :
              /\ \A p \in ArgInsts(b, j, e, k), q \in ArgInsts(b, j, e, m) : p < q
              /\ \A p \in ArgGlobals(b, j, e, k), q \in ArgGlobals(b, j, e, m) : p < q
         /\ e.args[k].kind = "Call" => LeftToRight(b, b[j].args[k].n, e.args[k])

RECURSIVE Accepted(_)
\* a call of a known function whose arguments are literals, references to
\* parameters and such calls that yield a value
Accepted(e) ==
    /\ e.kind = "Call"
    /\ GetFunction(functions, e.name) # 0
    /\ \A k \in 1..Len(e.args) :
         CASE e.args[k].kind \in {"Str", "Int"} -> TRUE
           [] e.args[k].kind = "Var" -> FirstNamed(item.params, e.args[k].name) # 0
           [] OTHER -> /\ Accepted(e.args[k])
                       /\ functions[GetFunction(functions, e.args[k].name)].ret # "void"

\* the statement before the next one was a call, and it was lowered
CallLowered ==
    /\ pc = "body" /\ status = "running"
    /\ si > 1
    /\ item.body[si - 1].kind = "Expr"
    /\ item.body[si - 1].expr.kind = "Call"

C13_VerifyEachFunction ==
    /\ [](/\ \A i \in 1..Len(functions) :
               /\ functions[i].optimized => functions[i].verified
               /\ functions[i].verified => Verify(functions, i)
               /\ ~functions[i].verified =>
                     /\ i = Len(functions) /\ i = cur
                     /\ pc \in {"body", "verify"}
          /\ panic.kind = "not_verified" =>
               /\ status = "panicked" /\ pc = "verify"
               /\ panic.name = item.name
               /\ item = program[CurIdx]
               /\ ~Verify(functions, cur)
               /\ ~functions[cur].verified /\ ~functions[cur].optimized
               /\ Len(functions) = NPrelude + (Len(program) - Len(rest))
               /\ out = <<>>)
    /\ [][/\ status = "running"
          /\ (pc = "verify" =>
                IF Verify(functions, cur)
                THEN /\ functions'[cur].verified /\ functions'[cur].optimized
                     /\ pc' = "loop" /\ status' = "running"
                ELSE /\ status' = "panicked"
                     /\ panic' = Panic("not_verified", item.name)
                     /\ functions' = functions /\ out' = out)]_vars

\* the last declared of two items calls println with no argument: its
\* verification failed and the first declared item was never yielded
C13_Witness ==
    /\ status = "panicked" /\ panic.kind = "not_verified"
    /\ Len(program) = 2 /\ rest = <<program[1]>>
    /\ Len(functions) = NPrelude + 1

\* the positions of the program's string literals, in lowering order
LitIdx == 1..Len(ProgLits(program))

\* C16: after a successful compilation the module has one string-literal
\* global for each occurrence of a string literal in the program (expression
\* statements and call arguments at any depth), in lowering order, each
\* under a symbol of its own, whether or not two occurrences have the same
\* text.
C16_OneGlobalPerOccurrence ==
    pc \in EmissionPcs =>
        /\ Len(StringLitGlobals) = Len(ProgLits(program))
        /\ \A k, m \in 1..Len(StringLitGlobals) :
              k # m => StringLitGlobals[k].sym # StringLitGlobals[m].sym
        /\ \A k \in 1..Len(StringLitGlobals) :
              StringLitGlobals[k].init =
                 SubSeq(Bytes(ProgLits(program)[k]), 2,
                        Len(Bytes(ProgLits(program)[k])) - 1) \o <<0>>

\* a compiled program holding the same literal three times, once nested in
\* an argument
C16_Witness ==
    /\ pc \in EmissionPcs /\ Len(program) = 1
    /\ \E e \in Exprs :
          /\ e.kind = "Call" /\ e.name = "sprintf"
          /\ StmtExpr(e) \in {program[1].body[k] : k \in 1..Len(program[1].body)}
    /\ \E k, m, n \in LitIdx :
          /\ k < m /\ m < n
          /\ ProgLits(program)[k] = ProgLits(program)[m]
          /\ ProgLits(program)[m] = ProgLits(program)[n]
    /\ Len(StringLitGlobals) >= 5

\* the names of the item being lowered and of the items declared after it
NamesFrom(i) == {program[j].name : j \in i..Len(program)}

\* C18: while the body of an item is lowered the module holds the prelude
\* functions, then one function for each item from the last declared down to
\* this one, the last of them being this item's own; so its own name
\* resolves (to itself unless a prelude function or a later declared item
\* has the same name), the name of an item declared before it resolves only
\* if one of those functions has it, and lowering a call of the item's own
\* name never reports a function as not found.
C18_SelfInSymbolTable ==
    /\ [](pc \in {"body", "verify"} =>
            /\ {functions[i].sym : i \in 1..NPrelude} =
                  {Sym(n, 0) : n \in PreludeNames}
            /\ Len(functions) = NPrelude + (Len(program) - CurIdx + 1)
            /\ \A i \in UserIdx : functions[i].sym.base = ItemOf(i).name
            /\ cur = Len(functions) /\ ItemOf(cur) = item
            /\ GetFunction(functions, item.name) # 0
            /\ item.name \notin PreludeNames \cup DeclaredAfter(CurIdx)
                  => GetFunction(functions, item.name) = cur
            /\ \A j \in 1..(CurIdx - 1) :
                  program[j].name \notin PreludeNames \cup NamesFrom(CurIdx)
                     => GetFunction(functions, program[j].name) = 0)
    /\ [][(ExprStmtNext("Call") /\ item.body[si].expr.name = item.name) =>
             /\ stderr' = stderr
             /\ panic'.kind \notin {"call_failed", "not_found"}
             /\ status' = "running" =>
                   LastInst(functions'[cur]).callee =
                      GetFunction(functions, item.name)]_vars

\* the last declared of two items, B(x: String), has lowered the call B(x)
\* of its body as a call of itself, the first declared item being unknown
C18_Witness ==
    /\ pc = "body" /\ status = "running" /\ si = 2
    /\ Len(program) = 2 /\ CurIdx = 2
    /\ item.body[1].expr.name = item.name
    /\ functions[cur].body[1].op = "call"
    /\ functions[cur].body[1].callee = cur
    /\ GetFunction(functions, program[1].name) = 0

IsComment(el) == el.ok /\ el.tok.kind = "Comment"
\* this step moved the parser one token forward: the stream lost its leading
\* comments and the element after them, which became the current token, or
\* Eof with the error recorded when it is a lexing error, or Eof when there
\* is no such element; the token that was current is the previous one
MovedOneToken ==
    /\ prev_token' = token
    /\ \E n \in 0..Len(tokens) :
         /\ \A k \in 1..n : IsComment(tokens[k])
         /\ IF n = Len(tokens)
            THEN /\ tokens' = <<>>
                 /\ token'.kind = "Eof"
                 /\ lex_errors' = lex_errors
            ELSE /\ ~IsComment(tokens[n + 1])
                 /\ tokens' = SubSeq(tokens, n + 2, Len(tokens))
                 /\ IF tokens[n + 1].ok
                    THEN token' = tokens[n + 1].tok /\ lex_errors' = lex_errors
                    ELSE /\ token'.kind = "Eof"
                         /\ lex_errors' = Append(lex_errors, tokens[n + 1].err)
\* this step is a call of the method op
Calls(op) == budget' = budget - 1 /\ called'.op = op

\* C14: consume(kind) returns whether the current token is of that kind and
\* consume_keyword(keyword) whether it is that keyword; when it is, the
\* parser has moved one token forward; when it is not, the current token,
\* the previous token, the stream and the lexing errors are as before.
C14_ConsumeFrame ==
    [][(Calls("consume") \/ Calls("consume_keyword")) =>
          LET matches == IF called'.op = "consume"
                         THEN token.kind = called'.arg
                         ELSE token.kind = "Ident" /\ token.lexeme = called'.arg
          IN /\ ret' = matches
             /\ IF matches THEN MovedOneToken
                ELSE /\ token' = token /\ prev_token' = prev_token
                     /\ tokens' = tokens /\ lex_errors' = lex_errors]_vars

\* consume_keyword(fn) returned true on the stream `fn //`: the comment was
\* skipped, the stream is used up and the current token is Eof
C14_Witness ==
    /\ called = Method("consume_keyword", "fn") /\ ret
    /\ Len(input) = 2 /\ IsComment(input[2])
    /\ prev_token = input[1].tok
    /\ token.kind = "Eof" /\ tokens = <<>>

\* C15: a call of advance (the one in new included) moves the parser one
\* token forward as MovedOneToken says, the Eof token it makes up starting
\* where the token before it ended; once a parser exists its current token
\* is never a comment; once the stream is used up and the current token is
\* Eof, it is Eof after every later call.
C15_AdvanceSkipsComments ==
    /\ [](pstate \in {"ready", "parsed"} => token.kind # "Comment")
    /\ [][((Calls("advance") \/ pstate = "created") =>
              /\ MovedOneToken
              /\ token'.kind = "Eof" =>
                    token'.span = Span(token.span.end, token.span.end + 1))
          /\ ((pstate = "ready" /\ tokens = <<>> /\ token.kind = "Eof") =>
                token'.kind = "Eof" /\ tokens' = <<>>)]_vars

\* after a lexing error ended the stream `x <error>`, a further advance left
\* the current token Eof, one position on
C15_Witness ==
    /\ called = Method("advance", "") /\ budget = 0
    /\ Len(input) = 2 /\ ~input[2].ok
    /\ lex_errors = <<input[2].err>>
    /\ tokens = <<>>
    /\ prev_token.kind = "Eof" /\ token.kind = "Eof"
    /\ token.span.start = prev_token.span.end

====
